---- MODULE Spec2Model ----
(***************************************************************************)
(* The /process_ai/ pipeline of ai_video_pipeline/backend/main.py:         *)
(* upload -> index resolution -> analysis (submit, poll, description       *)
(* fallback chain) -> prompt synthesis -> generation (submit, poll).       *)
(*                                                                         *)
(* One request is followed from the call of process_ai to its return.      *)
(* Every remote call is one step; its result (a response, an HTTP error,   *)
(* an exception) is chosen nondeterministically.  Python strings are       *)
(* sequences of tokens, so that concatenation (f-strings) and the          *)
(* substring test `"error" in s` are computed and not assumed.  Python     *)
(* dicts are functions from key strings to such strings.                   *)
(***************************************************************************)
EXTENDS Integers, Sequences, FiniteSets, TLC

VARIABLES
    \* module-level configuration (main.py 20-29)
    TWELVELABS_API_KEY, TWELVELABS_INDEX_ID, HIGGSFIELD_API_KEY, OPENAI_API_KEY,
    \* process_ai
    pc, video_url, image_url, index_id, analysis, gpt_prompt, gen_result,
    response,
    \* analyze_with_twelvelabs
    task_id, retry_count, status_data, video_id, description, checks,
    \* generate_with_higgsfield (the secret is read from the environment when
    \* the function is entered, main.py 247)
    HIGGSFIELD_API_SECRET, request_id, poll_count, polls,
    \* history of the request: remote calls made (status checks are counted
    \* per invocation in checks and polls), description sources tried, how
    \* each poller ended
    calls, tried, hist

config == <<TWELVELABS_API_KEY, TWELVELABS_INDEX_ID, HIGGSFIELD_API_KEY,
            OPENAI_API_KEY>>
frame_a == <<task_id, retry_count, status_data, video_id, description, checks>>
frame_g == <<HIGGSFIELD_API_SECRET, request_id, poll_count, polls>>
vars == <<config, pc, video_url, image_url, index_id, analysis, gpt_prompt,
          gen_result, response, frame_a, frame_g, calls, tried, hist>>

----------------------------------------------------------------------------
\* Strings, None and truthiness

\* Python's None, kept apart from the empty string <<>>
None == <<"None">>

\* a string literal of one token
Lit(s) == <<s>>

\* bool(x) of a string or None
Truthy(x) == x # None /\ x # <<>>

\* a or b, a or b or c (the first truthy operand, else the last)
Or2(a, b) == IF Truthy(a) THEN a ELSE b
Or3(a, b, c) == Or2(a, Or2(b, c))

\* "error" in s
ContainsError(s) == \E i \in DOMAIN s : s[i] = "error"

\* the empty dict {}
EmptyDict == <<>>

\* d.get(k) with the default None
Get(d, k) == IF k \in DOMAIN d THEN d[k] ELSE None

\* d.get(k, default)
GetD(d, k, default) == IF k \in DOMAIN d THEN d[k] ELSE default

\* the text of an exception, str(e)
ExcText == Lit("exc")

----------------------------------------------------------------------------
\* Initial state: process_ai has been called, nothing has run

Keys == {None, Lit("key")}

\* unset, empty, the sentinel, an ordinary id, an id that contains "error"
IndexIds == {None, <<>>, Lit("auto"), Lit("idx_cfg"), <<"idx_", "error", "_cfg">>}

NoCalls == [upload_video |-> 0, upload_image |-> 0, index_create |-> 0,
            task_submit |-> 0, desc |-> 0, summarize |-> 0,
            video_details |-> 0, gpt |-> 0, hf_submit |-> 0]

\* status_data = None (main.py 97) and the other locals before assignment
NoPayload == [status |-> None, video_id |-> <<>>, description |-> <<>>,
              summary |-> <<>>, result_description |-> <<>>]

InitFrameA ==
    /\ task_id = None
    /\ retry_count = 0
    /\ status_data = NoPayload
    /\ video_id = None
    /\ description = None
    /\ checks = 0

InitFrameG ==
    /\ HIGGSFIELD_API_SECRET = None
    /\ request_id = None
    /\ poll_count = 0
    /\ polls = 0

Init ==
    /\ TWELVELABS_API_KEY \in Keys
    /\ TWELVELABS_INDEX_ID \in IndexIds
    /\ HIGGSFIELD_API_KEY \in Keys
    /\ OPENAI_API_KEY \in Keys
    /\ pc = "upload"
    /\ video_url = None
    /\ image_url = None
    /\ index_id = None
    /\ analysis = EmptyDict
    /\ gpt_prompt = None
    /\ gen_result = EmptyDict
    /\ response = EmptyDict
    /\ InitFrameA
    /\ InitFrameG
    /\ calls = NoCalls
    /\ tried = <<>>
    /\ hist = [a_end |-> "none", a_first |-> FALSE,
               g_end |-> "none", g_first |-> FALSE, g_last |-> "none",
               upload |-> "none"]

----------------------------------------------------------------------------
\* process_ai: the responses it can return

\* main.py 391
DescriptionOf(an) == GetD(an, "description", Lit("No description available"))

\* a catch-all that reports the media fields as well
ExceptionResponseWithMedia(e) ==
    [status |-> Lit("error"), message |-> e, original_video |-> None, image_used |-> None]

\* main.py 423-425: the catch-all
ExceptionResponse(e) == [status |-> Lit("error"), message |-> e]

\* an analysis error reported without the uploaded URLs
AnalysisErrorResponseBare(an, vurl, iurl) ==
    [status |-> Lit("error"), message |-> Lit("Video analysis failed: ") \o an.error]

\* main.py 384-389
AnalysisErrorResponse(an, vurl, iurl) ==
    [status |-> Lit("error"),
     message |-> Lit("Video analysis failed: ") \o an.error,
     original_video |-> vurl,
     image_used |-> iurl]

\* a generation error reported as a plain error
GenerationErrorResponseAsError(gen, an, prompt, vurl, iurl) ==
    [status |-> Lit("error"),
     message |-> Lit("Video generation failed: ") \o gen.error,
     original_video |-> vurl,
     image_used |-> iurl,
     description |-> DescriptionOf(an),
     final_prompt |-> prompt,
     generated_video |-> None]

\* a generation error reported without what the earlier stages produced
GenerationErrorResponseNoResults(gen, an, prompt, vurl, iurl) ==
    [status |-> Lit("partial_success"),
     message |-> Lit("Video generation failed: ") \o gen.error,
     original_video |-> vurl,
     image_used |-> iurl,
     generated_video |-> None]

\* main.py 403-411
GenerationErrorResponse(gen, an, prompt, vurl, iurl) ==
    [status |-> Lit("partial_success"),
     message |-> Lit("Video generation failed: ") \o gen.error,
     original_video |-> vurl,
     image_used |-> iurl,
     description |-> DescriptionOf(an),
     final_prompt |-> prompt,
     generated_video |-> None]

\* a success response that reads the video under the key "url"
SuccessResponseWrongKey(gen, an, prompt, vurl, iurl) ==
    [status |-> Lit("success"),
     original_video |-> vurl,
     image_used |-> iurl,
     description |-> DescriptionOf(an),
     final_prompt |-> prompt,
     generated_video |-> Get(gen, "url")]

\* a success response that reports the description as the prompt
SuccessResponseDescriptionAsPrompt(gen, an, prompt, vurl, iurl) ==
    [status |-> Lit("success"),
     original_video |-> vurl,
     image_used |-> iurl,
     description |-> DescriptionOf(an),
     final_prompt |-> DescriptionOf(an),
     generated_video |-> Get(gen, "video_url")]

\* main.py 414-421
SuccessResponse(gen, an, prompt, vurl, iurl) ==
    [status |-> Lit("success"),
     original_video |-> vurl,
     image_used |-> iurl,
     description |-> DescriptionOf(an),
     final_prompt |-> prompt,
     generated_video |-> Get(gen, "video_url")]

----------------------------------------------------------------------------
\* 1. upload_to_cloudinary (main.py 61-65, called at 373)

UploadOutcomes == {"ok", "video_raises", "image_raises"}

Upload ==
    /\ pc = "upload"
    /\ \E o \in UploadOutcomes :
        /\ calls' = [calls EXCEPT !.upload_video = @ + 1,
                                  !.upload_image = IF o = "video_raises" THEN @ ELSE @ + 1]
        /\ hist' = [hist EXCEPT !.upload = o]
        /\ IF o = "ok"
           THEN /\ video_url' = Lit("video_secure_url")
                /\ image_url' = Lit("image_secure_url")
                /\ pc' = "index"
                /\ UNCHANGED response
           ELSE \* the exception reaches the catch-all of process_ai
                /\ response' = ExceptionResponse(ExcText)
                /\ pc' = "done"
                /\ UNCHANGED <<video_url, image_url>>
    /\ UNCHANGED <<config, index_id, analysis, gpt_prompt, gen_result,
                   frame_a, frame_g, tried>>

----------------------------------------------------------------------------
\* 2. create_index_if_needed (main.py 39-58, called at 378)

\* the result of POST /indexes: an exception, or a JSON body with or without "id"
IndexOutcomes == {[raise |-> TRUE, json |-> EmptyDict],
                  [raise |-> FALSE, json |-> EmptyDict],
                  [raise |-> FALSE, json |-> [id |-> Lit("idx_new")]]}

\* a resolver that creates an index whenever the credential is there
create_index_always(key, cfg_id, o) ==
    IF ~Truthy(key)
    THEN [ret |-> Lit("twelvelabs_not_configured"), remote |-> 0]
    ELSE IF o.raise
    THEN [ret |-> <<"error", "_creating_index: ">> \o ExcText, remote |-> 1]
    ELSE [ret |-> GetD(o.json, "id", Lit("index_creation_failed")), remote |-> 1]

\* a resolver that posts a second time when the first call raises
create_index_with_retry(key, cfg_id, o) ==
    IF ~Truthy(key)
    THEN [ret |-> Lit("twelvelabs_not_configured"), remote |-> 0]
    ELSE IF cfg_id = Lit("auto") \/ ~Truthy(cfg_id)
    THEN IF o.raise
         THEN [ret |-> <<"error", "_creating_index: ">> \o ExcText, remote |-> 2]
         ELSE [ret |-> GetD(o.json, "id", Lit("index_creation_failed")), remote |-> 1]
    ELSE [ret |-> cfg_id, remote |-> 0]

\* the value returned and the number of remote calls made
create_index_if_needed(key, cfg_id, o) ==
    IF ~Truthy(key)
    THEN [ret |-> Lit("twelvelabs_not_configured"), remote |-> 0]
    ELSE IF cfg_id = Lit("auto") \/ ~Truthy(cfg_id)
    THEN IF o.raise
         THEN [ret |-> <<"error", "_creating_index: ">> \o ExcText, remote |-> 1]
         ELSE [ret |-> GetD(o.json, "id", Lit("index_creation_failed")), remote |-> 1]
    ELSE [ret |-> cfg_id, remote |-> 0]

ResolveIndex ==
    /\ pc = "index"
    /\ \E o \in IndexOutcomes :
        LET r == create_index_if_needed(TWELVELABS_API_KEY, TWELVELABS_INDEX_ID, o)
        IN /\ index_id' = r.ret
           /\ calls' = [calls EXCEPT !.index_create = @ + r.remote]
    /\ pc' = "analyze"
    /\ UNCHANGED <<config, video_url, image_url, analysis, gpt_prompt, gen_result,
                   response, frame_a, frame_g, tried, hist>>

----------------------------------------------------------------------------
\* process_ai after analyze_with_twelvelabs has returned (main.py 382-392)

\* a test of the status field in place of the error key
AnalysisFailedByStatus(an) == "status" \in DOMAIN an /\ an.status = Lit("error")

\* main.py 383
AnalysisFailed(an) == "error" \in DOMAIN an

AnalysisReturns(an) ==
    /\ analysis' = an
    /\ IF AnalysisFailed(an)
       THEN /\ response' = AnalysisErrorResponse(an, video_url, image_url)
            /\ pc' = "done"
       ELSE /\ pc' = "gpt"
            /\ UNCHANGED response

\* the locals of analyze_with_twelvelabs are gone once it has returned a
\* result and process_ai goes on
PopFrameA ==
    /\ task_id' = None
    /\ retry_count' = 0
    /\ status_data' = NoPayload
    /\ video_id' = None
    /\ description' = None
    /\ checks' = 0

----------------------------------------------------------------------------
\* 3. analyze_with_twelvelabs: precondition and task submit (main.py 67-92)

\* a precondition that looks at the credential only
AnalysisDisabledKeyOnly(key, idx) == ~Truthy(key)

\* main.py 69
AnalysisDisabled(key, idx) == ~Truthy(key) \/ ContainsError(idx)

\* the result of POST /tasks: an exception, or a JSON body naming the task
\* under one of three keys, or under none
SubmitOutcomes == {[raise |-> TRUE, json |-> EmptyDict],
                   [raise |-> FALSE, json |-> EmptyDict],
                   [raise |-> FALSE, json |-> [_id |-> Lit("task_1")]],
                   [raise |-> FALSE, json |-> [id |-> Lit("task_1")]],
                   [raise |-> FALSE, json |-> [task_id |-> Lit("task_1")]]}

\* main.py 88
TaskId(json) == Or3(Get(json, "_id"), Get(json, "id"), Get(json, "task_id"))

\* main.py 205-207: the function's own catch-all
AnalysisException == [error |-> Lit("TwelveLabs API error: ") \o ExcText]

AnalyzeSubmit ==
    /\ pc = "analyze"
    /\ IF AnalysisDisabled(TWELVELABS_API_KEY, index_id)
       THEN /\ AnalysisReturns([error |-> Lit("TwelveLabs not configured or index error: ")
                                          \o index_id])
            /\ hist' = [hist EXCEPT !.a_end = "precondition"]
            /\ UNCHANGED <<frame_a, calls>>
       ELSE \E o \in SubmitOutcomes :
            /\ calls' = [calls EXCEPT !.task_submit = @ + 1]
            /\ IF o.raise
               THEN /\ AnalysisReturns(AnalysisException)
                    /\ hist' = [hist EXCEPT !.a_end = "submit_raised"]
                    /\ UNCHANGED frame_a
               ELSE IF ~Truthy(TaskId(o.json))
               THEN /\ AnalysisReturns([error |-> <<"No task_id returned: ", "{}">>])
                    /\ hist' = [hist EXCEPT !.a_end = "no_task_id"]
                    /\ UNCHANGED frame_a
               ELSE /\ task_id' = TaskId(o.json)
                    /\ retry_count' = 0
                    /\ status_data' = NoPayload
                    /\ pc' = "poll"
                    /\ UNCHANGED <<analysis, response, hist, video_id, description, checks>>
    /\ UNCHANGED <<config, video_url, image_url, index_id, gpt_prompt, gen_result,
                   frame_g, tried>>

----------------------------------------------------------------------------
\* 4. analyze_with_twelvelabs: the poll loop (main.py 94-126)

max_retries == 60

\* a loop condition that is off by one
LoopContinuesOffByOne(rc) == rc <= max_retries

\* the loop condition, main.py 99
LoopContinues(rc) == rc < max_retries

\* a timeout test that is off by one
TimedOutOffByOne(rc) == rc >= max_retries - 1

\* main.py 118
TimedOut(rc) == rc >= max_retries

\* main.py 106-113: what one status does to the loop
PollVerdict(current_status) ==
    IF current_status = Lit("ready") THEN "break"
    ELSE IF current_status = Lit("failed") THEN "return_error"
    ELSE "sleep"

Payload(st, vid, d, s, r) ==
    [status |-> st, video_id |-> vid, description |-> d, summary |-> s,
     result_description |-> r]

\* the task payloads of GET /tasks/{id}: not finished (a listed status and an
\* unlisted one), failed, and ready with or without a video id and with one
\* or none of the description fields
TaskPayloads ==
    {Payload(Lit("queued"), <<>>, <<>>, <<>>, <<>>),
     Payload(Lit("validating"), <<>>, <<>>, <<>>, <<>>),
     Payload(Lit("failed"), <<>>, <<>>, <<>>, <<>>),
     Payload(Lit("ready"), <<>>, <<>>, <<>>, <<>>),
     Payload(Lit("ready"), Lit("video_1"), <<>>, <<>>, <<>>),
     Payload(Lit("ready"), Lit("video_1"), Lit("task.description"), <<>>, <<>>),
     Payload(Lit("ready"), Lit("video_1"), <<>>, Lit("task.summary"), <<>>),
     Payload(Lit("ready"), Lit("video_1"), <<>>, <<>>, Lit("task.result.description"))}

StatusOutcomes ==
    {[raise |-> TRUE, json |-> NoPayload]}
    \cup {[raise |-> FALSE, json |-> p] : p \in TaskPayloads}

\* str(status_data) inside a message
Repr(p) == <<"{">> \o p.status \o <<",">> \o p.video_id \o <<",">> \o p.description
           \o <<",">> \o p.summary \o <<",">> \o p.result_description \o <<"}">>

PollStatus ==
    /\ pc = "poll"
    /\ LoopContinues(retry_count)
    /\ \E o \in StatusOutcomes :
        /\ checks' = checks + 1
        /\ IF o.raise
           THEN \* requests.get or .json() raises: caught at main.py 205
                /\ AnalysisReturns(AnalysisException)
                /\ hist' = [hist EXCEPT !.a_end = "check_raised", !.a_first = (checks = 0)]
                /\ UNCHANGED <<task_id, retry_count, status_data, video_id, description>>
           ELSE LET verdict == PollVerdict(o.json.status)
                    rc == IF verdict = "sleep" THEN retry_count + 1 ELSE retry_count
                    vid == Or2(o.json.video_id, task_id)
                IN  /\ status_data' = o.json
                    /\ retry_count' = rc
                    /\ UNCHANGED <<task_id, description>>
                    /\ IF verdict = "return_error"
                       THEN /\ AnalysisReturns([error |-> Lit("Task failed: ") \o Repr(o.json)])
                            /\ hist' = [hist EXCEPT !.a_end = "failed",
                                                    !.a_first = (checks = 0)]
                            /\ UNCHANGED video_id
                       ELSE IF verdict = "sleep" /\ LoopContinues(rc)
                       THEN /\ pc' = "poll"
                            /\ UNCHANGED <<analysis, response, hist, video_id>>
                       ELSE IF TimedOut(rc)
                       THEN /\ AnalysisReturns(
                                 [error |-> Lit("Video processing timeout - task did not complete in time. Last status: ")
                                            \o Repr(o.json)])
                            /\ hist' = [hist EXCEPT !.a_end = "timeout"]
                            /\ UNCHANGED video_id
                       ELSE IF ~Truthy(vid)
                       THEN /\ AnalysisReturns(
                                 [error |-> Lit("No video_id in completed task: ") \o Repr(o.json)])
                            /\ hist' = [hist EXCEPT !.a_end = "no_video_id"]
                            /\ UNCHANGED video_id
                       ELSE /\ video_id' = vid
                            /\ pc' = "description"
                            /\ hist' = [hist EXCEPT !.a_end = "ready",
                                                    !.a_first = (checks = 0)]
                            /\ UNCHANGED <<analysis, response>>
    /\ UNCHANGED <<config, video_url, image_url, index_id, gpt_prompt, gen_result,
                   frame_g, calls, tried>>

----------------------------------------------------------------------------
\* 5. analyze_with_twelvelabs: the description sources (main.py 128-203)

\* the result of one description endpoint: an exception, a response that is
\* not 200, or 200 with a JSON body
Endpoint(bodies) ==
    {[kind |-> "raise", json |-> EmptyDict], [kind |-> "http_error", json |-> EmptyDict]}
    \cup {[kind |-> "ok", json |-> b] : b \in bodies}

DescriptionBodies ==
    {EmptyDict,
     [description |-> Lit("desc.description")],
     [summary |-> Lit("desc.summary")],
     [description |-> Lit("desc.description"), summary |-> Lit("desc.summary")]}

SummarizeBodies ==
    {EmptyDict,
     [summary |-> Lit("sum.summary")],
     [description |-> Lit("sum.description")],
     [summary |-> Lit("sum.summary"), description |-> Lit("sum.description")]}

\* "metadata.description" is the nested field video_data["metadata"]["description"]
VideoBodies ==
    {EmptyDict,
     [description |-> Lit("video.description")],
     [summary |-> Lit("video.summary")],
     [metadata_description |-> Lit("video.metadata.description")]}

\* main.py 141-145: the description is assigned only from a 200 response
FromDescription(d, o) ==
    IF o.kind = "ok" THEN Or2(Get(o.json, "description"), Get(o.json, "summary")) ELSE d

\* main.py 160-164
FromSummarize(d, o) ==
    IF o.kind = "ok" THEN Or2(Get(o.json, "summary"), Get(o.json, "description")) ELSE d

\* main.py 177-185
FromVideoDetails(d, o) ==
    IF o.kind = "ok"
    THEN Or3(Get(o.json, "description"), Get(o.json, "summary"),
             Get(o.json, "metadata_description"))
    ELSE d

\* main.py 188: the task payload is consulted when nothing was found
UsesTaskPayload(d, sd) == ~Truthy(d) /\ sd # NoPayload

\* main.py 188-193
FromTaskPayload(d, sd) ==
    IF UsesTaskPayload(d, sd)
    THEN Or3(sd.description, sd.summary, sd.result_description)
    ELSE d

Placeholder == Lit("Video processed but description unavailable")

\* no placeholder: the description is returned as found
WithoutPlaceholder(d) == d

\* main.py 195-197
WithPlaceholder(d) == IF ~Truthy(d) THEN Placeholder ELSE d

\* main.py 199-203
AnalysisResult(vid, d) == [video_id |-> vid, description |-> d, status |-> Lit("ready")]

\* the video-details block placed before the summarize block
NextSourceSwapped(src) ==
    CASE src = "description" -> "video_details"
      [] src = "video_details" -> "summarize"
      [] src = "summarize" -> "task"

\* the order of the guarded blocks at main.py 131, 148, 167, 188
NextSource(src) ==
    CASE src = "description" -> "summarize"
      [] src = "summarize" -> "video_details"
      [] src = "video_details" -> "task"

Tried(src, d) == [src |-> src, got |-> Truthy(d)]

\* after the endpoint src has left the description d: the blocks that follow
\* are skipped while d is truthy, and the function returns at main.py 199
SourceDone(src, d) ==
    IF ~Truthy(d) /\ NextSource(src) # "task"
    THEN /\ description' = d
         /\ pc' = NextSource(src)
         /\ tried' = Append(tried, Tried(src, d))
         /\ UNCHANGED <<task_id, retry_count, status_data, video_id, checks,
                        analysis, response>>
    ELSE LET d1 == FromTaskPayload(d, status_data)
         IN  /\ AnalysisReturns(AnalysisResult(video_id, WithPlaceholder(d1)))
             /\ tried' = IF UsesTaskPayload(d, status_data)
                         THEN tried \o <<Tried(src, d), Tried("task", d1)>>
                         ELSE Append(tried, Tried(src, d))
             /\ PopFrameA

DescriptionEndpoint ==
    /\ pc = "description"
    /\ \E o \in Endpoint(DescriptionBodies) :
        SourceDone("description", FromDescription(description, o))
    /\ calls' = [calls EXCEPT !.desc = @ + 1]
    /\ UNCHANGED <<config, video_url, image_url, index_id, gpt_prompt, gen_result,
                   frame_g, hist>>

SummarizeEndpoint ==
    /\ pc = "summarize"
    /\ \E o \in Endpoint(SummarizeBodies) :
        SourceDone("summarize", FromSummarize(description, o))
    /\ calls' = [calls EXCEPT !.summarize = @ + 1]
    /\ UNCHANGED <<config, video_url, image_url, index_id, gpt_prompt, gen_result,
                   frame_g, hist>>

VideoDetailsEndpoint ==
    /\ pc = "video_details"
    /\ \E o \in Endpoint(VideoBodies) :
        SourceDone("video_details", FromVideoDetails(description, o))
    /\ calls' = [calls EXCEPT !.video_details = @ + 1]
    /\ UNCHANGED <<config, video_url, image_url, index_id, gpt_prompt, gen_result,
                   frame_g, hist>>

----------------------------------------------------------------------------
\* 6. generate_prompt_with_gpt (main.py 208-241, called at 395)

\* the result of POST /v1/chat/completions: an exception (also a body
\* without choices), or a completion
GptOutcomes == {[raise |-> TRUE, content |-> <<>>],
                [raise |-> FALSE, content |-> Lit("gpt_prompt_text")]}

NotConfiguredPrompt == Lit("OpenAI API key not configured.")

\* the string returned and the number of remote calls made
generate_prompt_with_gpt(key, o) ==
    IF ~Truthy(key)
    THEN [ret |-> NotConfiguredPrompt, remote |-> 0]
    ELSE IF o.raise
    THEN [ret |-> Lit("Error calling GPT API: ") \o ExcText, remote |-> 1]
    ELSE [ret |-> o.content, remote |-> 1]

GeneratePrompt ==
    /\ pc = "gpt"
    /\ \E o \in GptOutcomes :
        LET r == generate_prompt_with_gpt(OPENAI_API_KEY, o)
        IN /\ gpt_prompt' = r.ret
           /\ calls' = [calls EXCEPT !.gpt = @ + r.remote]
    /\ pc' = "hf_submit"
    /\ UNCHANGED <<config, video_url, image_url, index_id, analysis, gen_result,
                   response, frame_a, frame_g, tried, hist>>

----------------------------------------------------------------------------
\* process_ai after generate_with_higgsfield has returned (main.py 400-421)

\* a test of the status field in place of the error key
GenerationFailedByStatus(gen) == "status" \in DOMAIN gen /\ gen.status = Lit("failed")

\* main.py 402
GenerationFailed(gen) == "error" \in DOMAIN gen

GenerationReturns(gen) ==
    /\ gen_result' = gen
    /\ response' = IF GenerationFailed(gen)
                   THEN GenerationErrorResponse(gen, analysis, gpt_prompt, video_url, image_url)
                   ELSE SuccessResponse(gen, analysis, gpt_prompt, video_url, image_url)
    /\ pc' = "done"

----------------------------------------------------------------------------
\* 7. generate_with_higgsfield: precondition and submit (main.py 244-306)

\* main.py 249
GenerationDisabled(key, secret) == ~Truthy(key) \/ ~Truthy(secret)

\* the result of the POST: an exception, a status outside 200/201, a body
\* that is not JSON, or a JSON body
GenSubmitOutcomes ==
    {[kind |-> k, json |-> EmptyDict] : k \in {"raise", "http_error", "not_json"}}
    \cup {[kind |-> "json", json |-> b] :
            b \in {EmptyDict,
                   [error |-> Lit("rejected")],
                   [detail |-> Lit("rejected")],
                   [id |-> Lit("req_1")],
                   [request_id |-> Lit("req_1")],
                   [uuid |-> Lit("req_1")]}}

\* main.py 301
RequestId(json) == Or3(Get(json, "id"), Get(json, "request_id"), Get(json, "uuid"))

\* main.py 284-304: the error returned for a submit result, or EmptyDict
\* when the request was accepted
SubmitError(o) ==
    IF o.kind = "raise" THEN [error |-> Lit("Higgsfield API error: ") \o ExcText]
    ELSE IF o.kind = "http_error" THEN [error |-> <<"Higgsfield API error: ", "500", " - ">>]
    ELSE IF o.kind = "not_json" THEN [error |-> Lit("Invalid response format: ")]
    ELSE IF "error" \in DOMAIN o.json \/ "detail" \in DOMAIN o.json
    THEN [error |-> Lit("Higgsfield error: ")]
    ELSE IF ~Truthy(RequestId(o.json)) THEN [error |-> Lit("No request ID in response: ")]
    ELSE EmptyDict

HiggsfieldSubmit ==
    /\ pc = "hf_submit"
    /\ \E secret \in Keys :
        /\ HIGGSFIELD_API_SECRET' = secret
        /\ IF GenerationDisabled(HIGGSFIELD_API_KEY, secret)
           THEN /\ GenerationReturns(
                     [error |-> Lit("HIGGSFIELD_API_KEY or HIGGSFIELD_API_SECRET not configured")])
                /\ hist' = [hist EXCEPT !.g_end = "precondition"]
                /\ UNCHANGED <<request_id, poll_count, polls, calls>>
           ELSE \E o \in GenSubmitOutcomes :
                /\ calls' = [calls EXCEPT !.hf_submit = @ + 1]
                /\ IF SubmitError(o) # EmptyDict
                   THEN /\ GenerationReturns(SubmitError(o))
                        /\ hist' = [hist EXCEPT !.g_end = "submit_failed"]
                        /\ UNCHANGED <<request_id, poll_count, polls>>
                   ELSE /\ request_id' = RequestId(o.json)
                        /\ poll_count' = 0
                        /\ pc' = "hf_poll"
                        /\ UNCHANGED <<gen_result, response, hist, polls>>
    /\ UNCHANGED <<config, video_url, image_url, index_id, analysis, gpt_prompt,
                   frame_a, tried>>

----------------------------------------------------------------------------
\* 8. generate_with_higgsfield: the poll loop (main.py 308-363)

max_polls == 120

\* range(max_polls), main.py 312
InRange(n) == n < max_polls

Status(code, st, url) == [raise |-> FALSE, code |-> code, status |-> st, video_url |-> url]

\* the result of one GET: an exception, 404, another status that is not 200,
\* or 200 with a status and, under one of the four fields read at main.py
\* 326-331, a video URL or none
GenPollOutcomes ==
    {[raise |-> TRUE, code |-> 0, status |-> None, video_url |-> None],
     Status(404, None, None),
     Status(500, None, None),
     Status(200, Lit("pending"), None),
     Status(200, Lit("processing"), None),
     Status(200, Lit("queued"), None),
     Status(200, Lit("rendering"), None),
     Status(200, Lit("failed"), None),
     Status(200, Lit("error"), None),
     Status(200, Lit("completed"), None),
     Status(200, Lit("completed"), Lit("generated_video_url")),
     Status(200, Lit("success"), None),
     Status(200, Lit("success"), Lit("generated_video_url"))}

\* a poll that gives up on any response that is not 200
GenPollVerdictStrict(o) ==
    IF o.raise THEN "continue"
    ELSE IF o.code = 200
    THEN IF o.status \in {Lit("completed"), Lit("success")}
         THEN IF Truthy(o.video_url) THEN "return_video" ELSE "return_no_url"
         ELSE IF o.status \in {Lit("failed"), Lit("error")} THEN "return_failed"
         ELSE "continue"
    ELSE "return_failed"

\* main.py 319-361: what one poll does to the loop
GenPollVerdict(o) ==
    IF o.raise THEN "continue"
    ELSE IF o.code = 200
    THEN IF o.status \in {Lit("completed"), Lit("success")}
         THEN IF Truthy(o.video_url) THEN "return_video" ELSE "return_no_url"
         ELSE IF o.status \in {Lit("failed"), Lit("error")} THEN "return_failed"
         ELSE "continue"
    ELSE "continue"

\* main.py 335, 338, 341: the dict returned
GenPollReturn(o) ==
    CASE GenPollVerdict(o) = "return_video" ->
            [video_url |-> o.video_url, status |-> Lit("success")]
      [] GenPollVerdict(o) = "return_no_url" ->
            [error |-> Lit("No video URL in response: ") \o o.status]
      [] GenPollVerdict(o) = "return_failed" ->
            [error |-> <<"Generation failed: ", "None">>]

\* what the poll saw, for the history: an exception, 404, another status
\* that is not 200, or the status of a 200 response ("waiting" for the three
\* listed at main.py 343, "unrecognized" for one listed nowhere)
PollKind(o) ==
    IF o.raise THEN "exception"
    ELSE IF o.code = 404 THEN "404"
    ELSE IF o.code # 200 THEN "non_200"
    ELSE IF o.status \in {Lit("pending"), Lit("processing"), Lit("queued")} THEN "waiting"
    ELSE IF o.status \in {Lit("completed"), Lit("success"), Lit("failed"), Lit("error")}
    THEN o.status[1]
    ELSE "unrecognized"

\* how the poller ended, for the history
GenEnd(o) ==
    IF o.status \in {Lit("completed"), Lit("success")}
    THEN IF Truthy(o.video_url) THEN "success" ELSE "no_url"
    ELSE o.status[1]

HiggsfieldPoll ==
    /\ pc = "hf_poll"
    /\ InRange(poll_count)
    /\ \E o \in GenPollOutcomes :
        /\ polls' = polls + 1
        /\ IF GenPollVerdict(o) # "continue"
           THEN /\ GenerationReturns(GenPollReturn(o))
                /\ hist' = [hist EXCEPT !.g_end = GenEnd(o), !.g_first = (polls = 0),
                                        !.g_last = PollKind(o)]
                /\ UNCHANGED poll_count
           ELSE /\ poll_count' = poll_count + 1
                /\ IF InRange(poll_count + 1)
                   THEN /\ pc' = "hf_poll"
                        /\ hist' = [hist EXCEPT !.g_last = PollKind(o)]
                        /\ UNCHANGED <<gen_result, response>>
                   ELSE \* main.py 363
                        /\ GenerationReturns([error |-> Lit("Generation timeout")])
                        /\ hist' = [hist EXCEPT !.g_end = "timeout",
                                                !.g_last = PollKind(o)]
    /\ UNCHANGED <<config, video_url, image_url, index_id, analysis, gpt_prompt,
                   frame_a, HIGGSFIELD_API_SECRET, request_id, calls, tried>>

----------------------------------------------------------------------------
Next ==
    \/ Upload
    \/ ResolveIndex
    \/ AnalyzeSubmit
    \/ PollStatus
    \/ DescriptionEndpoint
    \/ SummarizeEndpoint
    \/ VideoDetailsEndpoint
    \/ GeneratePrompt
    \/ HiggsfieldSubmit
    \/ HiggsfieldPoll

Spec == Init /\ [][Next]_vars

----------------------------------------------------------------------------
\* What the claims speak of

Done == pc = "done"

Has(f) == f \in DOMAIN response

StatusIs(st) == Has("status") /\ response.status = Lit(st)

\* the field is in the response and holds a non-empty string
NonEmpty(f) == Has(f) /\ Truthy(response[f])

UploadRaised == hist.upload \in {"video_raises", "image_raises"}

\* the index resolver returned a usable id: the configured one or a new one
IndexResolved == index_id \in {TWELVELABS_INDEX_ID, Lit("idx_new")}

\* the completion endpoint was called and answered with a prompt
PromptSynthesized == calls.gpt = 1 /\ gpt_prompt = Lit("gpt_prompt_text")

\* every remote call succeeded and each poller saw its terminal success state
\* on its first status check
AllSucceededAtOnce ==
    /\ hist.upload = "ok"
    /\ IndexResolved
    /\ calls.task_submit = 1
    /\ hist.a_end = "ready" /\ hist.a_first
    /\ PromptSynthesized
    /\ calls.hf_submit = 1
    /\ hist.g_end = "success" /\ hist.g_first

\* C1: when the upload, the index resolution, the analysis submit, the prompt
\* synthesis and the generation submit all succeed and the first status check
\* of each poller returns its terminal success state, process_ai returns
\* status success with original_video, image_used, description, final_prompt
\* and generated_video all present and non-empty.
C1_SuccessHasAllFields ==
    AllSucceededAtOnce =>
        /\ Done
        /\ StatusIs("success")
        /\ \A f \in {"original_video", "image_used", "description", "final_prompt",
                     "generated_video"} : NonEmpty(f)

C1_Witness == Done /\ AllSucceededAtOnce

\* C2: when the analysis provider reports failed on the first status check,
\* process_ai returns status error with original_video and image_used and
\* with none of description, final_prompt, generated_video.
C2_AnalysisFailedFirst ==
    (hist.a_end = "failed" /\ hist.a_first) =>
        /\ Done
        /\ StatusIs("error")
        /\ Has("original_video") /\ response.original_video = video_url
        /\ Has("image_used") /\ response.image_used = image_url
        /\ ~Has("description") /\ ~Has("final_prompt") /\ ~Has("generated_video")

C2_Witness == Done /\ hist.a_end = "failed" /\ hist.a_first /\ checks = 1

\* C3: when the generation stage is reached and the generation provider
\* reports failed in a 200 response on some poll, process_ai returns status
\* partial_success with description and final_prompt present and
\* generated_video null.
C3_GenerationFailed ==
    hist.g_end = "failed" =>
        /\ Done
        /\ StatusIs("partial_success")
        /\ Has("description") /\ response.description = analysis.description
        /\ Has("final_prompt") /\ response.final_prompt = gpt_prompt
        /\ Has("generated_video") /\ response.generated_video = None

C3_Witness == Done /\ hist.g_end = "failed" /\ polls > 1

\* C4: when the video upload raises, process_ai returns exactly the two
\* fields status = error and message = the exception text.
C4_UploadException ==
    hist.upload = "video_raises" =>
        /\ Done
        /\ DOMAIN response = {"status", "message"}
        /\ response.status = Lit("error")
        /\ response.message = ExcText

C4_Witness == Done /\ hist.upload = "video_raises"

NoAnalysisCalls ==
    /\ calls.task_submit = 0 /\ checks = 0
    /\ calls.desc = 0 /\ calls.summarize = 0 /\ calls.video_details = 0

NoSynthesisOrGeneration == calls.gpt = 0 /\ calls.hf_submit = 0 /\ polls = 0

\* C5: once a step has reported a hard error no later step runs: after an
\* upload exception there is no index, analysis, synthesis or generation
\* call; after an analysis error there is no synthesis call and no generation
\* submit or poll; after a generation error the request is over.
C5_NoStepAfterHardError ==
    /\ UploadRaised =>
          Done /\ calls.index_create = 0 /\ NoAnalysisCalls /\ NoSynthesisOrGeneration
    /\ "error" \in DOMAIN analysis => Done /\ NoSynthesisOrGeneration
    /\ "error" \in DOMAIN gen_result => Done

C5_Witness == Done /\ "error" \in DOMAIN analysis /\ checks > 1

\* C6: in one invocation the analysis poller makes at most 60 status checks
\* and the generation poller at most 120, whatever they observe, and a
\* timeout is declared after exactly that many.
C6_PollingBound ==
    /\ checks <= 60
    /\ polls <= 120
    /\ hist.a_end = "timeout" => checks = 60
    /\ hist.g_end = "timeout" => polls = 120

C6_Witness == Done /\ hist.g_end = "timeout" /\ polls = 120

SourceOrder == <<"description", "summarize", "video_details", "task">>

\* C7: the description sources are tried in the order description endpoint,
\* summarization endpoint, video-details endpoint, task payload, each only
\* after the ones before it yielded nothing, and the placeholder is the
\* description only if all four yielded nothing.
C7_FallbackOrder ==
    /\ Len(tried) <= 4
    /\ \A i \in DOMAIN tried : tried[i].src = SourceOrder[i]
    /\ \A i \in DOMAIN tried : i > 1 => ~tried[i - 1].got
    /\ calls.video_details > 0 => calls.summarize > 0 /\ calls.desc > 0
    /\ ("description" \in DOMAIN analysis /\ analysis.description = Placeholder) =>
          Len(tried) = 4 /\ \A i \in DOMAIN tried : ~tried[i].got

C7_Witness ==
    /\ "description" \in DOMAIN analysis /\ analysis.description = Placeholder
    /\ Len(tried) = 4

\* the index resolver has run
IndexStepDone == hist.upload = "ok" /\ pc \notin {"upload", "index"}

\* C8 as stated: with a configured index id other than "auto" the resolver
\* returns that id and makes no remote call, whatever the other credentials.
C8_AsStated ==
    (IndexStepDone /\ TWELVELABS_INDEX_ID # None /\ TWELVELABS_INDEX_ID # Lit("auto")) =>
        index_id = TWELVELABS_INDEX_ID /\ calls.index_create = 0

\* C8: with the analysis credential configured and a non-empty configured
\* index id other than "auto", the resolver returns that id unchanged and
\* makes no remote call.
C8_ConfiguredIndexReturned ==
    (/\ Truthy(TWELVELABS_API_KEY)
     /\ Truthy(TWELVELABS_INDEX_ID) /\ TWELVELABS_INDEX_ID # Lit("auto")) =>
        \* the call made by this request
        /\ IndexStepDone => index_id = TWELVELABS_INDEX_ID /\ calls.index_create = 0
        \* any further call, whatever the provider would answer
        /\ \A o \in IndexOutcomes :
              create_index_if_needed(TWELVELABS_API_KEY, TWELVELABS_INDEX_ID, o)
                  = [ret |-> TWELVELABS_INDEX_ID, remote |-> 0]

C8_Witness ==
    /\ IndexStepDone
    /\ Truthy(TWELVELABS_API_KEY)
    /\ TWELVELABS_INDEX_ID = Lit("idx_cfg")
    /\ index_id = Lit("idx_cfg")

\* C9 as stated: a request that is not finished can take a step (every
\* remote call returns or raises, and no step leads back), a finished request
\* carries a status among success, partial_success, error, and a request
\* that has begun polling ends only by a terminal task state or by the
\* exhausted attempt budget.
C9_AsStated ==
    /\ Done \/ ENABLED Next
    /\ Done =>
        /\ Has("status")
        /\ response.status \in {Lit("success"), Lit("partial_success"), Lit("error")}
        /\ hist.a_end \in {"ready", "failed", "timeout"} \/ checks = 0
        /\ hist.g_end \in {"success", "no_url", "failed", "error", "timeout"} \/ polls = 0

\* the part of C9 that the code keeps: no unfinished request is stuck, and a
\* finished request carries one of the three statuses
C9_StatusAlwaysCarried ==
    /\ Done \/ ENABLED Next
    /\ Done => Has("status") /\ response.status \in
                   {Lit("success"), Lit("partial_success"), Lit("error")}

\* C10 as stated: once the task was submitted and answered, an exception in
\* a status check or in a fallback step does not end the analysis, which
\* returns an error only if the task failed, the budget is exhausted, or the
\* submit response has no task identifier.
C10_AsStated ==
    ("error" \in DOMAIN analysis /\ calls.task_submit = 1 /\ hist.a_end # "submit_raised") =>
        hist.a_end \in {"failed", "timeout", "no_task_id"}

\* analyze_with_twelvelabs has been called
AnalysisEntered == hist.upload = "ok" /\ pc \notin {"upload", "index", "analyze"}

\* C11: when the analysis credential is absent or the index id contains
\* "error", analyze_with_twelvelabs returns an error at once and makes no
\* remote call: no task submit, no status check, no description lookup.
C11_PreconditionNoRemoteCall ==
    (AnalysisEntered /\ (~Truthy(TWELVELABS_API_KEY) \/ ContainsError(index_id))) =>
        /\ "error" \in DOMAIN analysis
        /\ hist.a_end = "precondition"
        /\ NoAnalysisCalls
        /\ Done

C11_Witness ==
    /\ AnalysisEntered
    /\ Truthy(TWELVELABS_API_KEY)
    /\ ContainsError(index_id)
    /\ calls.index_create = 1

\* what had been produced when the request ended
VideoProduced == hist.upload \in {"ok", "image_raises"}
ImageProduced == hist.upload = "ok"
DescriptionProduced == "description" \in DOMAIN analysis
PromptProduced == gpt_prompt # None

\* the response carries the field with the value that was produced
Carries(f, v) == Has(f) /\ response[f] = v

\* C12 as stated: every terminal response carries each of original_video,
\* image_used, description, final_prompt that had been produced before the
\* pipeline stopped, an exception after an upload included.
C12_AsStated ==
    Done =>
        /\ VideoProduced => Has("original_video")
        /\ ImageProduced => Has("image_used")
        /\ DescriptionProduced => Has("description")
        /\ PromptProduced => Has("final_prompt")

\* C12: a terminal response returned for an analysis error, a generation
\* error or a success carries each of original_video, image_used,
\* description, final_prompt that had been produced; the response of the
\* catch-all carries status and message only, also when the video had been
\* uploaded before the exception.
C12_ProducedFieldsCarried ==
    Done =>
        IF UploadRaised
        THEN DOMAIN response = {"status", "message"}
        ELSE /\ Carries("original_video", video_url)
             /\ Carries("image_used", image_url)
             /\ DescriptionProduced => Carries("description", analysis.description)
             /\ PromptProduced => Carries("final_prompt", gpt_prompt)
             /\ ~DescriptionProduced => ~Has("description")
             /\ ~PromptProduced => ~Has("final_prompt")

C12_Witness ==
    /\ Done /\ StatusIs("partial_success")
    /\ hist.g_end = "timeout"
    /\ DescriptionProduced /\ PromptProduced

NonTerminalKinds == {"exception", "404", "non_200", "waiting", "unrecognized"}

TerminalKinds == {"completed", "success", "failed", "error"}

\* C13: the generation poller stops before its 120 attempts are used only on
\* a 200 response with status completed, success, failed or error; a 404,
\* another non-200 response, an exception and a 200 response with a waiting
\* or unrecognized status each use one attempt, and polling goes on.
C13_GenerationStopsOnTerminalOnly ==
    /\ (pc = "hf_poll" /\ polls > 0) =>
          hist.g_last \in NonTerminalKinds /\ poll_count = polls /\ polls < 120
    /\ (Done /\ polls > 0 /\ polls < 120) => hist.g_last \in TerminalKinds
    /\ (Done /\ polls > 0 /\ hist.g_last \in NonTerminalKinds) =>
          polls = 120 /\ hist.g_end = "timeout"
    /\ (polls > 0 /\ hist.g_last \in TerminalKinds) => Done

C13_Witness == pc = "hf_poll" /\ polls = 7 /\ hist.g_last = "404"

TimeoutText == Lit("Video processing timeout - task did not complete in time. Last status: ")

\* C15: the analysis poller returns the timeout error exactly when all 60
\* status checks returned a status other than ready and failed; ready on the
\* 60th check gives a result and no timeout; the timeout error carries the
\* payload of the last status check.
C15_TimeoutExactlyAfterSixty ==
    /\ hist.a_end = "timeout" <=> retry_count = 60
    /\ hist.a_end = "timeout" =>
          /\ checks = 60
          /\ status_data.status \notin {Lit("ready"), Lit("failed")}
          /\ "error" \in DOMAIN analysis
          /\ analysis.error = TimeoutText \o Repr(status_data)
    /\ (checks = 60 /\ status_data.status = Lit("ready")) =>
          /\ hist.a_end = "ready"
          /\ retry_count = 59
          /\ "error" \notin DOMAIN analysis

C15_Witness == checks = 60 /\ status_data.status = Lit("ready") /\ pc = "summarize"

\* C16: within one request each stage is invoked at most once: one upload
\* of each medium, one index creation, one task submit, one call of each
\* description endpoint, one prompt call, one generation submit; only the
\* status checks are repeated.
C16_EachStageAtMostOnce ==
    /\ \A k \in DOMAIN calls : calls[k] <= 1
    /\ calls.upload_image <= calls.upload_video
    /\ calls.hf_submit <= 1 /\ (polls > 0 => calls.hf_submit = 1)
    /\ checks > 0 => calls.task_submit = 1

C16_Witness ==
    /\ Done /\ polls > 1
    /\ calls.upload_video = 1 /\ calls.upload_image = 1 /\ calls.index_create = 1
    /\ calls.task_submit = 1 /\ calls.gpt = 1 /\ calls.hf_submit = 1

\* the resolver returned one of its three failure values
IndexFailed ==
    \/ index_id \in {Lit("twelvelabs_not_configured"), Lit("index_creation_failed")}
    \/ Len(index_id) >= 2 /\ SubSeq(index_id, 1, 2) = <<"error", "_creating_index: ">>

\* C18 as stated: whenever the index resolver returns
\* twelvelabs_not_configured, index_creation_failed or error_creating_index,
\* the pipeline ends with status error and no task is submitted to the
\* analysis provider.
C18_AsStated ==
    (AnalysisEntered /\ IndexFailed) =>
        Done /\ StatusIs("error") /\ calls.task_submit = 0

\* the part of C18 that the code keeps: the two failure values that stop the
\* analysis before the submit
C18_NotConfiguredOrRaisedStops ==
    (AnalysisEntered /\ IndexFailed /\ index_id # Lit("index_creation_failed")) =>
        Done /\ StatusIs("error") /\ calls.task_submit = 0

C20_SuccessOnlyWithVideo ==
    /\ StatusIs("success") =>
          /\ hist.a_end = "ready"
          /\ hist.g_end = "success" /\ hist.g_last \in {"completed", "success"}
          /\ Has("generated_video") /\ response.generated_video # None
          /\ Truthy(response.generated_video)
    /\ StatusIs("partial_success") =>
          Has("generated_video") /\ response.generated_video = None

C20_Witness == Done /\ StatusIs("success") /\ polls > 1 /\ hist.g_last = "completed"

====
